---- MODULE Spec2Model ----
(***************************************************************************)
(* Model of bin/jpath.py: the custom JMESPath functions (items, to_hash,   *)
(* unroll), the flattener, the two field mappers and the per-record loop   *)
(* of JMESPath.stream.                                                     *)
(*                                                                         *)
(* Python objects are tagged records, each tag with its own payload field: *)
(*   None -> "null", bool -> "bool" (b), int -> "num" (n), str -> "str" (s),*)
(*   list -> "arr" (a: the sequence of its elements),                      *)
(*   dict -> "obj" (o: the sequence of its entries [k |-> key, v |-> value]*)
(*           in insertion order).                                          *)
(***************************************************************************)
EXTENDS Integers, Sequences, FiniteSets, TLC

VARIABLES
    \* --- function library (SpecFn) ---
    doc,          \* the parsed document the query is evaluated on
    cur,          \* the argument of the next function call
    key_field,    \* unroll's second argument
    value_field,  \* unroll's third argument
    result,       \* what the last function call returned
    chain,        \* names of the functions applied so far, innermost first
    fpc,          \* "call" (a function may be applied) | "ret" (it returned)
    \* --- field mapper (SpecMap) ---
    m_values,     \* the query result handed to apply_output
    m_output,     \* the local variable `output` of the mapper
    m_record,     \* the record the mapper writes to
    m_i,          \* index of the next entry of values.items()
    m_pc,         \* "start" | "loop" | "done" | "raised"
    \* --- JMESPath.stream (Spec) ---
    records,      \* the input record stream
    idx,          \* position of the next record of the stream
    field_json,   \* the parsed input field of the last record parsed
    s_output,     \* the local `output` of stream(): the last search result
    emitted,      \* what the generator has yielded so far
    pc,           \* "run" | "done" | "raised"
    cause,        \* exception that left stream(), "none" while running
    opt_output,   \* self.output
    opt_default   \* self.default

fnvars == <<doc, cur, key_field, value_field, result, chain, fpc>>
mapvars == <<m_values, m_output, m_record, m_i, m_pc>>
streamvars == <<records, idx, field_json, s_output, emitted, pc, cause,
                opt_output, opt_default>>
vars == <<doc, cur, key_field, value_field, result, chain, fpc,
          m_values, m_output, m_record, m_i, m_pc,
          records, idx, field_json, s_output, emitted, pc, cause,
          opt_output, opt_default>>

-----------------------------------------------------------------------------
(* Python object model *)

JNull == [t |-> "null"]

JBool(b) == [t |-> "bool", b |-> b]

JNum(n) == [t |-> "num", n |-> n]

JStr(s) == [t |-> "str", s |-> s]

JArr(s) == [t |-> "arr", a |-> s]

JObj(es) == [t |-> "obj", o |-> es]

Entry(k, val) == [k |-> k, v |-> val]

\* isinstance(x, (list, tuple)); JSON parsing never produces tuples
IsList(x) == x.t = "arr"

IsDict(x) == x.t = "obj"

IsStr(x) == x.t = "str"

\* join a sequence of strings with a separator
RECURSIVE Join(_, _)
Join(ss, sep) ==
    IF ss = <<>> THEN ""
    ELSE IF Len(ss) = 1 THEN ss[1]
    ELSE ss[1] \o sep \o Join(Tail(ss), sep)

\* repr(x), as str() uses it for the elements of a container
RECURSIVE PyRepr(_)
PyRepr(x) ==
    CASE x.t = "null" -> "None"
      [] x.t = "bool" -> (IF x.b THEN "True" ELSE "False")
      [] x.t = "num" -> ToString(x.n)
      [] x.t = "str" -> "'" \o x.s \o "'"
      [] x.t = "arr" ->
            "[" \o Join([i \in 1..Len(x.a) |-> PyRepr(x.a[i])], ", ") \o "]"
      [] x.t = "obj" ->
            "{" \o Join([i \in 1..Len(x.o) |->
                          PyRepr(x.o[i].k) \o ": " \o PyRepr(x.o[i].v)], ", ")
                \o "}"

\* str(x)
PyStr(x) == IF x.t = "str" THEN x.s ELSE PyRepr(x)

\* the text json.dumps writes for a dict key (str kept, scalars coerced)
DumpsKey(k) ==
    CASE k.t = "str" -> k.s
      [] k.t = "null" -> "null"
      [] k.t = "bool" -> (IF k.b THEN "true" ELSE "false")
      [] k.t = "num" -> ToString(k.n)

\* json.dumps(x, ensure_ascii=False); the strings of the model need no escape
RECURSIVE Dumps(_)
Dumps(x) ==
    CASE x.t = "null" -> "null"
      [] x.t = "bool" -> (IF x.b THEN "true" ELSE "false")
      [] x.t = "num" -> ToString(x.n)
      [] x.t = "str" -> "\"" \o x.s \o "\""
      [] x.t = "arr" ->
            "[" \o Join([i \in 1..Len(x.a) |-> Dumps(x.a[i])], ", ") \o "]"
      [] x.t = "obj" ->
            "{" \o Join([i \in 1..Len(x.o) |->
                          "\"" \o DumpsKey(x.o[i].k) \o "\": "
                               \o Dumps(x.o[i].v)], ", ")
                \o "}"

\* hash(k) is defined: lists and dicts are unhashable
Hashable(k) == k.t \notin {"arr", "obj"}

\* dict keys are compared with ==, under which True == 1 and False == 0
KeyNorm(k) == IF k.t = "bool" THEN JNum(IF k.b THEN 1 ELSE 0) ELSE k

KeyEq(a, b) == KeyNorm(a) = KeyNorm(b)

\* position of key k in the entries es, 0 when k not in the dict
KeyIndex(es, k) ==
    IF \E i \in 1..Len(es) : KeyEq(es[i].k, k)
    THEN CHOOSE i \in 1..Len(es) : KeyEq(es[i].k, k)
    ELSE 0

\* d[k] = val on the entries of a dict: an existing key keeps its place
DictSet(es, k, val) ==
    IF KeyIndex(es, k) = 0 THEN Append(es, Entry(k, val))
    ELSE [es EXCEPT ![KeyIndex(es, k)].v = val]

-----------------------------------------------------------------------------
(* JmespathSplunkFunctions *)

\* the items of `key, val = item`, <<>> when the unpacking raises
Unpack(item) ==
    CASE item.t = "arr" /\ Len(item.a) = 2 -> <<item.a[1], item.a[2]>>
      [] item.t = "str" /\ Len(item.s) = 2 ->
            <<JStr(SubSeq(item.s, 1, 1)), JStr(SubSeq(item.s, 2, 2))>>
      [] item.t = "obj" /\ Len(item.o) = 2 -> <<item.o[1].k, item.o[2].k>>
      [] OTHER -> <<>>

\* faulty variant of items: each pair is built as [value, key]
_func_items_swapped(h) ==
    JArr([i \in 1..Len(h.o) |-> JArr(<<h.o[i].v, h.o[i].k>>)])

_func_items(h) ==
    JArr([i \in 1..Len(h.o) |-> JArr(<<h.o[i].k, h.o[i].v>>)])

\* one iteration of the loop of to_hash on the entries h
ToHashStep(h, item) ==
    IF Unpack(item) = <<>> THEN h
    ELSE IF ~Hashable(Unpack(item)[1]) THEN h
    ELSE DictSet(h, Unpack(item)[1], Unpack(item)[2])

RECURSIVE ToHashLoop(_, _)
ToHashLoop(h, items) ==
    IF items = <<>> THEN h
    ELSE ToHashLoop(ToHashStep(h, Head(items)), Tail(items))

_func_to_hash(array) == JObj(ToHashLoop(<<>>, array.a))

\* one iteration of the loop of unroll.  st.d holds the entries of d, each
\* with src: the index of the element of objs whose value list is the very
\* list object stored under that key (0 when d[k] is no list of the input);
\* st.objs is the input array as the appends of line 74 leave it;
\* st.exc is the exception that left the loop, "none" while it runs.
UnrollStep(st, i, key, value) ==
    LET item == st.objs[i] IN
    IF st.exc # "none" THEN st
    ELSE IF ~IsDict(item) THEN [st EXCEPT !.exc = "TypeError"]
    ELSE IF KeyIndex(item.o, JStr(key)) = 0
            \/ KeyIndex(item.o, JStr(value)) = 0 THEN st
    ELSE
      LET k0 == item.o[KeyIndex(item.o, JStr(key))].v
          v == item.o[KeyIndex(item.o, JStr(value))].v
          k == IF IsStr(k0) THEN k0 ELSE JStr(PyStr(k0))
          p == KeyIndex([j \in 1..Len(st.d) |-> Entry(st.d[j].k, st.d[j].v)], k)
      IN
      IF p = 0
      THEN [st EXCEPT !.d = Append(st.d,
                [k |-> k, v |-> v, src |-> IF IsList(v) THEN i ELSE 0])]
      ELSE IF ~IsList(st.d[p].v)
      THEN [st EXCEPT !.d[p] =
                [k |-> k, v |-> JArr(<<st.d[p].v, v>>), src |-> 0]]
      ELSE
        LET grown == JArr(Append(st.d[p].v.a, v))
            s == st.d[p].src
        IN
        [st EXCEPT
           !.d[p].v = grown,
           !.objs = IF s = 0 THEN st.objs
                    ELSE [st.objs EXCEPT
                            ![s].o[KeyIndex(st.objs[s].o, JStr(value))].v
                                = grown]]

RECURSIVE UnrollLoop(_, _, _, _)
UnrollLoop(st, i, key, value) ==
    IF i > Len(st.objs) THEN st
    ELSE UnrollLoop(UnrollStep(st, i, key, value), i + 1, key, value)

\* unroll(objs, key, value): .ret is the returned object, .objs the argument
\* after the call, .exc the exception raised instead of returning
_func_unroll(objs, key, value) ==
    LET st == UnrollLoop([d |-> <<>>, objs |-> objs.a, exc |-> "none"],
                         1, key, value)
    IN [ret |-> JObj([j \in 1..Len(st.d) |-> Entry(st.d[j].k, st.d[j].v)]),
        objs |-> JArr(st.objs),
        exc |-> st.exc]

-----------------------------------------------------------------------------
(* Evaluation of the custom functions by the query engine *)

MaxKeys == 2

MaxArr == 3

MaxChain == 2

SeqsUpTo(S, n) == UNION {[1..m -> S] : m \in 0..n}

DistinctKeys(es) ==
    \A i, j \in 1..Len(es) : i # j => ~KeyEq(es[i].k, es[j].k)

\* the objects json.loads builds: string keys, pairwise distinct
ObjectsOver(K, V, n) ==
    {JObj(es) : es \in {s \in SeqsUpTo([k : K, v : V], n) : DistinctKeys(s)}}

FnKeys == {JStr("a"), JStr("b"), JStr("c")}

FnVals == {JNum(1), JNull, JArr(<<JNum(2), JNum(3)>>)}

\* elements of the arrays handed to to_hash
HashItems ==
    {JArr(<<JStr("a"), JNum(1)>>), JArr(<<JStr("b"), JNum(2)>>),
     JArr(<<JStr("a"), JNum(3)>>), JArr(<<JNum(1), JStr("n")>>),
     JArr(<<JBool(TRUE), JStr("t")>>), JArr(<<JArr(<<JNum(1)>>), JNum(2)>>),
     JArr(<<JNum(1)>>), JNum(5), JStr("ab")}

FieldArgs == {"Name", "Value"}

\* elements of the arrays handed to unroll
UnrollItems ==
    {JObj(<<Entry(JStr("Name"), n), Entry(JStr("Value"), w)>>) :
        n \in {JStr("x"), JStr("y"), JNum(1)},
        w \in {JNum(1), JNum(2), JArr(<<JNum(1)>>)}}
    \cup {JObj(<<Entry(JStr("Name"), JStr("x"))>>),
          JObj(<<Entry(JStr("Value"), JNum(1))>>),
          JNum(5)}

FnDocs ==
    ObjectsOver(FnKeys, FnVals, MaxKeys)
    \cup {JArr(s) : s \in SeqsUpTo(HashItems, MaxArr)}
    \cup {JArr(s) : s \in SeqsUpTo(UnrollItems, MaxArr)}

NoResult == [t |-> "none"]

\* what a call yields when it raises instead of returning
Raised(e) == [t |-> "error", e |-> e]

MapIdle ==
    /\ m_values = JNull
    /\ m_output = ""
    /\ m_record = [host |-> JStr("h")]
    /\ m_i = 0
    /\ m_pc = "idle"

StreamIdle ==
    /\ records = <<>>
    /\ idx = 0
    /\ field_json = NoResult
    /\ s_output = NoResult
    /\ emitted = <<>>
    /\ pc = "idle"
    /\ cause = "none"
    /\ opt_output = ""
    /\ opt_default = JNull

FnIdle ==
    /\ doc = JNull
    /\ cur = JNull
    /\ key_field = ""
    /\ value_field = ""
    /\ result = NoResult
    /\ chain = <<>>
    /\ fpc = "idle"

InitFn ==
    /\ doc \in FnDocs
    /\ cur = doc
    /\ key_field \in FieldArgs
    /\ value_field \in FieldArgs
    /\ result = NoResult
    /\ chain = <<>>
    /\ fpc = "call"
    /\ MapIdle
    /\ StreamIdle

\* items(@) / pairs(@): the signature admits an object only
CallItems ==
    /\ fpc = "call"
    /\ result' = IF IsDict(cur) THEN _func_items(cur)
                 ELSE Raised("JMESPathTypeError")
    /\ chain' = Append(chain, "items")
    /\ fpc' = "ret"
    /\ UNCHANGED <<doc, cur, key_field, value_field>>
    /\ UNCHANGED mapvars
    /\ UNCHANGED streamvars

\* to_hash(@): the signature admits an array only
CallToHash ==
    /\ fpc = "call"
    /\ result' = IF IsList(cur) THEN _func_to_hash(cur)
                 ELSE Raised("JMESPathTypeError")
    /\ chain' = Append(chain, "to_hash")
    /\ fpc' = "ret"
    /\ UNCHANGED <<doc, cur, key_field, value_field>>
    /\ UNCHANGED mapvars
    /\ UNCHANGED streamvars

\* unroll(@, key_field, value_field): the list objects of the argument are
\* those of the document, so what the call appends to them shows in both
CallUnroll ==
    /\ fpc = "call"
    /\ LET r == _func_unroll(cur, key_field, value_field) IN
        IF ~IsList(cur)
        THEN /\ result' = Raised("JMESPathTypeError")
             /\ UNCHANGED <<doc, cur>>
        ELSE /\ result' = IF r.exc = "none" THEN r.ret ELSE Raised(r.exc)
             /\ cur' = r.objs
             /\ doc' = IF chain = <<>> THEN r.objs ELSE doc
    /\ chain' = Append(chain, "unroll")
    /\ fpc' = "ret"
    /\ UNCHANGED <<key_field, value_field>>
    /\ UNCHANGED mapvars
    /\ UNCHANGED streamvars

\* a nested call f(g(@)): the value g returned is the argument of f
Pipe ==
    /\ fpc = "ret"
    /\ result.t # "error"
    /\ Len(chain) < MaxChain
    /\ cur' = result
    /\ fpc' = "call"
    /\ UNCHANGED <<doc, key_field, value_field, result, chain>>
    /\ UNCHANGED mapvars
    /\ UNCHANGED streamvars

NextFn == CallItems \/ CallToHash \/ CallUnroll \/ Pipe

SpecFn == InitFn /\ [][NextFn]_vars

-----------------------------------------------------------------------------
(* Flattener and field mappers *)

\* position of the first occurrence of old in s, 0 when there is none
FindSub(s, old) ==
    LET hits == {i \in 1..(Len(s) - Len(old) + 1) :
                    SubSeq(s, i, i + Len(old) - 1) = old}
    IN IF hits = {} THEN 0
       ELSE CHOOSE i \in hits : \A j \in hits : i <= j

\* s.replace(old, new, 1)
StrReplace1(s, old, new) ==
    IF FindSub(s, old) = 0 THEN s
    ELSE SubSeq(s, 1, FindSub(s, old) - 1) \o new
         \o SubSeq(s, FindSub(s, old) + Len(old), Len(s))

\* old in s
StrContains(s, old) == FindSub(s, old) # 0

\* record[name] = val; a record is a function from field names to objects
SetField(rec, name, val) ==
    [f \in DOMAIN rec \cup {name} |-> IF f = name THEN val ELSE rec[f]]

\* record.get(name)
GetField(rec, name) == IF name \in DOMAIN rec THEN rec[name] ELSE JNull

\* list(flatten(container)): the tokens, each a str
flatten(container) ==
    IF IsDict(container) THEN <<JStr(Dumps(container))>>
    ELSE IF IsList(container)
    THEN [i \in 1..Len(container.a) |->
            IF IsList(container.a[i]) \/ IsDict(container.a[i])
            THEN JStr(Dumps(container.a[i]))
            ELSE JStr(PyStr(container.a[i]))]
    ELSE <<JStr(PyStr(container))>>

\* faulty variant of output_to_field: nothing is assigned when flatten
\* yields no token
output_to_field_skip(values, output, rec) ==
    LET content == flatten(values) IN
    IF content = <<>> THEN rec
    ELSE IF Len(content) = 1 THEN SetField(rec, output, content[1])
    ELSE SetField(rec, output, JArr(content))

\* the record after output_to_field(values, output, record)
output_to_field(values, output, rec) ==
    LET content == flatten(values) IN
    IF content = <<>> THEN SetField(rec, output, JNull)
    ELSE IF Len(content) = 1 THEN SetField(rec, output, content[1])
    ELSE SetField(rec, output, JArr(content))

\* faulty variant of the wildcard value: the flattener's reduction is used
WildcardValue_flat(value) ==
    LET content == flatten(value) IN
    IF content = <<>> THEN JNull
    ELSE IF Len(content) = 1 THEN content[1]
    ELSE JArr(content)

\* what the loop of output_to_wildcard stores for one entry value
WildcardValue(value) ==
    IF IsList(value)
    THEN IF value.a = <<>> THEN JNull
         ELSE IF Len(value.a) = 1 THEN value.a[1]
         ELSE JStr(Dumps(value))
    ELSE IF IsDict(value) THEN JStr(Dumps(value))
    ELSE value

\* one iteration of the loop of output_to_wildcard: st.output is the local
\* variable output, st.rec the record, st.exc the exception that left the
\* loop (str.replace rejects a key that is no str), "none" while it runs
WildcardStep(st, entry) ==
    IF st.exc # "none" THEN st
    ELSE IF ~IsStr(entry.k) THEN [st EXCEPT !.exc = "TypeError"]
    ELSE LET out == StrReplace1(st.output, "*", entry.k.s) IN
         [output |-> out,
          rec |-> SetField(st.rec, out, WildcardValue(entry.v)),
          exc |-> "none"]

RECURSIVE WildcardLoop(_, _)
WildcardLoop(st, es) ==
    IF es = <<>> THEN st
    ELSE WildcardLoop(WildcardStep(st, Head(es)), Tail(es))

\* output_to_wildcard(values, output, record): .rec is the record after the
\* call, .exc the exception raised by it
output_to_wildcard(values, output, rec) ==
    LET st0 == [output |-> output, rec |-> rec, exc |-> "none"] IN
    IF values = JNull THEN st0
    ELSE IF IsDict(values) THEN WildcardLoop(st0, values.o)
    ELSE [st0 EXCEPT !.rec = SetField(rec, output, JStr(Dumps(values)))]

-----------------------------------------------------------------------------
(* apply_output on one query result *)

Outputs == {"jpath", "field_*"}

WildKeys == {JStr("x"), JStr("y"), JStr("*")}

WildVals ==
    {JNum(1), JStr("s"), JArr(<<>>), JArr(<<JNum(7)>>),
     JArr(<<JNum(2), JNum(3)>>), JObj(<<Entry(JStr("k"), JNum(1))>>)}

\* query results: scalars, arrays, objects, and an object keyed by a number
\* as to_hash builds it
MapResults ==
    {JNum(1), JStr("a"), JBool(TRUE),
     JArr(<<>>), JArr(<<JStr("a")>>), JArr(<<JStr("a"), JStr("b")>>),
     JArr(<<JNull, JArr(<<JNum(2)>>), JObj(<<Entry(JStr("k"), JNum(1))>>)>>),
     JObj(<<Entry(JStr("x"), JNum(1)), Entry(JNum(1), JStr("n"))>>)}
    \cup ObjectsOver(WildKeys, WildVals, MaxKeys)

MapRecords ==
    {[host |-> JStr("h")],
     [host |-> JStr("h"), jpath |-> JStr("old")],
     [host |-> JStr("h"), field_x |-> JStr("old")]}

InitMap ==
    /\ m_values \in MapResults
    /\ opt_output \in Outputs
    /\ m_output = opt_output
    /\ m_record \in MapRecords
    /\ m_i = 1
    /\ m_pc = "start"
    /\ FnIdle
    /\ records = <<>>
    /\ idx = 0
    /\ field_json = NoResult
    /\ s_output = NoResult
    /\ emitted = <<>>
    /\ pc = "idle"
    /\ cause = "none"
    /\ opt_default = JNull

\* apply_output is output_to_field: self.output holds no "*"
ApplyField ==
    /\ m_pc = "start"
    /\ ~StrContains(opt_output, "*")
    /\ m_record' = output_to_field(m_values, m_output, m_record)
    /\ m_pc' = "done"
    /\ UNCHANGED <<m_values, m_output, m_i>>
    /\ UNCHANGED fnvars
    /\ UNCHANGED streamvars

\* apply_output is output_to_wildcard: entry into the function, up to the
\* loop over values.items()
WildcardStart ==
    /\ m_pc = "start"
    /\ StrContains(opt_output, "*")
    /\ IF IsDict(m_values) /\ m_values.o # <<>>
       THEN /\ m_pc' = "loop"
            /\ UNCHANGED m_record
       ELSE /\ m_pc' = "done"
            /\ m_record' = output_to_wildcard(m_values, m_output, m_record).rec
    /\ UNCHANGED <<m_values, m_output, m_i>>
    /\ UNCHANGED fnvars
    /\ UNCHANGED streamvars

\* one iteration of the loop over values.items()
WildcardEntry ==
    /\ m_pc = "loop"
    /\ LET st == WildcardStep([output |-> m_output, rec |-> m_record,
                               exc |-> "none"], m_values.o[m_i])
       IN /\ m_output' = st.output
          /\ m_record' = st.rec
          /\ m_pc' = IF st.exc # "none" THEN "raised"
                     ELSE IF m_i = Len(m_values.o) THEN "done"
                     ELSE "loop"
    /\ m_i' = m_i + 1
    /\ UNCHANGED m_values
    /\ UNCHANGED fnvars
    /\ UNCHANGED streamvars

NextMap == ApplyField \/ WildcardStart \/ WildcardEntry

SpecMap == InitMap /\ [][NextMap]_vars

-----------------------------------------------------------------------------
(* JMESPath.stream *)

MaxRecords == 2

ErrorField == "_jmespath_error"

InputField == "_raw"

\* documents the input texts of the model parse to
StreamDocs ==
    {JObj(<<Entry(JStr("x"), JNum(1))>>), JArr(<<JNum(1), JNum(2)>>)}

\* json.loads(s) on a str: the document whose text s is, else ValueError
JsonLoads(s) ==
    IF \E d \in StreamDocs : Dumps(d) = s
    THEN CHOOSE d \in StreamDocs : Dumps(d) = s
    ELSE Raised("ValueError")

\* record.get(self.input), a list replaced by its first element
InputOf(rec) ==
    LET field == GetField(rec, InputField) IN
    IF IsList(field)
    THEN IF field.a = <<>> THEN Raised("IndexError") ELSE field.a[1]
    ELSE field

\* the document parsed from the input field, or the exception raised on
\* the way: json.loads takes text only
ParseInput(rec) ==
    LET field == InputOf(rec) IN
    IF field.t = "error" THEN field
    ELSE IF ~IsStr(field) THEN Raised("TypeError")
    ELSE JsonLoads(field.s)

\* faulty variant of the ValueError handler: the default overrides the output
OnInvalidJson_default(rec) ==
    SetField(SetField(rec, ErrorField, JStr("Invalid JSON.")),
             opt_output, opt_default)

\* the handler of ValueError around json.loads
OnInvalidJson(rec) == SetField(rec, ErrorField, JStr("Invalid JSON."))

\* the exception stream() raises on an unknown function
FatalCause == "ValueError: Issue with JMESPath expression"

\* faulty variant of the UnknownFunctionError handler: the record is
\* yielded before the exception leaves stream()
OnUnknownFunction_yield(rec) ==
    [rec |-> rec, cause |-> FatalCause, yield |-> TRUE]

\* the handler of UnknownFunctionError: raise ValueError out of stream()
OnUnknownFunction(rec) ==
    [rec |-> rec, cause |-> FatalCause, yield |-> FALSE]

\* the second try block on the search outcome o: .rec is the record after
\* it, .cause the exception that leaves stream() ("none": the loop goes on)
\* and .yield tells whether line 178 is reached
SearchBody(rec, o) ==
    CASE o = Raised("UnknownFunctionError") -> OnUnknownFunction(rec)
      [] o = Raised("JMESPathError") ->
            [rec |-> SetField(rec, ErrorField,
                              JStr("JMESPath error: " \o o.e)),
             cause |-> "none", yield |-> TRUE]
      [] o = Raised("Exception") ->
            [rec |-> SetField(rec, ErrorField, JStr("Exception: " \o o.e)),
             cause |-> "none", yield |-> TRUE]
      [] o = JNull ->
            [rec |-> IF opt_default # JNull
                     THEN SetField(rec, opt_output, opt_default) ELSE rec,
             cause |-> "none", yield |-> TRUE]
      [] OTHER ->
            IF StrContains(opt_output, "*")
            THEN LET st == output_to_wildcard(o, opt_output, rec) IN
                 [rec |-> IF st.exc = "none" THEN st.rec
                          ELSE SetField(st.rec, ErrorField,
                                        JStr("Exception: " \o st.exc)),
                  cause |-> "none", yield |-> TRUE]
            ELSE [rec |-> output_to_field(o, opt_output, rec),
                  cause |-> "none", yield |-> TRUE]

StreamResults ==
    {JStr("a"), JArr(<<>>), JArr(<<JStr("a"), JStr("b")>>),
     JObj(<<Entry(JStr("x"), JNum(1)),
            Entry(JStr("y"), JArr(<<JNum(2), JNum(3)>>))>>),
     JObj(<<Entry(JStr("x"), JNum(1)), Entry(JNum(1), JStr("n"))>>)}

\* what jmespath_expr.search may do on a document: the engine is external
SearchOutcomes ==
    {Raised("UnknownFunctionError"), Raised("JMESPathError"),
     Raised("Exception"), JNull} \cup StreamResults

StreamRecords ==
    {[host |-> JStr("h")],
     [host |-> JStr("h"), _raw |-> JArr(<<>>)],
     [host |-> JStr("h"), _raw |-> JNum(5)],
     [host |-> JStr("h"), _raw |-> JStr("{bad")],
     [host |-> JStr("h"), _raw |-> JStr("{bad"), jpath |-> JStr("old")],
     [host |-> JStr("h"), _raw |-> JStr("[1, 2]")],
     [host |-> JStr("h"), _raw |-> JArr(<<JStr("{\"x\": 1}")>>)],
     [host |-> JStr("h"), _raw |-> JStr("{\"x\": 1}"), jpath |-> JStr("old")]}

Defaults == {JNull, JStr("N/A")}

Init ==
    /\ records \in SeqsUpTo(StreamRecords, MaxRecords)
    /\ idx = 1
    /\ field_json = NoResult
    /\ s_output = NoResult
    /\ emitted = <<>>
    /\ pc = "run"
    /\ cause = "none"
    /\ opt_output \in Outputs
    /\ opt_default \in Defaults
    /\ FnIdle
    /\ MapIdle

\* the record source is exhausted: the generator returns
Exhausted ==
    /\ pc = "run"
    /\ idx > Len(records)
    /\ pc' = "done"
    /\ UNCHANGED <<records, idx, field_json, s_output, emitted, cause,
                   opt_output, opt_default>>
    /\ UNCHANGED fnvars
    /\ UNCHANGED mapvars

\* an iteration in which reading or parsing the input field raises
\* something json's ValueError handler does not catch
RecordFieldError ==
    /\ pc = "run"
    /\ idx <= Len(records)
    /\ ParseInput(records[idx]) \in {Raised("TypeError"), Raised("IndexError")}
    /\ pc' = "raised"
    /\ cause' = ParseInput(records[idx]).e
    /\ UNCHANGED <<records, idx, field_json, s_output, emitted,
                   opt_output, opt_default>>
    /\ UNCHANGED fnvars
    /\ UNCHANGED mapvars

\* an iteration on a record whose input text is not JSON
RecordInvalidJson ==
    /\ pc = "run"
    /\ idx <= Len(records)
    /\ ParseInput(records[idx]) = Raised("ValueError")
    /\ emitted' = Append(emitted, [src |-> idx,
                                   rec |-> OnInvalidJson(records[idx])])
    /\ idx' = idx + 1
    /\ UNCHANGED <<records, field_json, s_output, pc, cause,
                   opt_output, opt_default>>
    /\ UNCHANGED fnvars
    /\ UNCHANGED mapvars

\* an iteration on a record whose input parses: search, map, yield
RecordSearch ==
    /\ pc = "run"
    /\ idx <= Len(records)
    /\ ParseInput(records[idx]).t # "error"
    /\ field_json' = ParseInput(records[idx])
    /\ \E o \in SearchOutcomes :
        LET b == SearchBody(records[idx], o) IN
        /\ s_output' = IF o.t = "error" THEN s_output ELSE o
        /\ emitted' = IF b.yield
                      THEN Append(emitted, [src |-> idx, rec |-> b.rec])
                      ELSE emitted
        /\ cause' = b.cause
        /\ pc' = IF b.cause = "none" THEN "run" ELSE "raised"
        /\ idx' = IF b.cause = "none" THEN idx + 1 ELSE idx
    /\ UNCHANGED <<records, opt_output, opt_default>>
    /\ UNCHANGED fnvars
    /\ UNCHANGED mapvars

Next == Exhausted \/ RecordFieldError \/ RecordInvalidJson \/ RecordSearch

Spec == Init /\ [][Next]_vars

-----------------------------------------------------------------------------
(* Properties of JMESPath.stream, checked under Spec *)

\* the input field of rec holds text that is not the text of a document
InvalidText(rec) ==
    /\ IsStr(InputOf(rec))
    /\ ~\E d \in StreamDocs : Dumps(d) = InputOf(rec).s

\* C1: no failure other than an unknown-function error leaves stream():
\* whenever stream() has raised, the cause is the unknown-function error
C1_Contained == pc = "raised" => cause = FatalCause

\* C2: on a record whose input text is not valid JSON the iteration raises
\* nothing, evaluates no query (the search result and the parsed document
\* stay as they were), and yields that record with the error field set to
\* "Invalid JSON." and every other field, the output field included, as it
\* was
C2_InvalidJson ==
    [][(pc = "run" /\ idx <= Len(records) /\ InvalidText(records[idx])) =>
        /\ pc' = "run"
        /\ cause' = "none"
        /\ s_output' = s_output
        /\ field_json' = field_json
        /\ Len(emitted') = Len(emitted) + 1
        /\ SubSeq(emitted', 1, Len(emitted)) = emitted
        /\ LET old == records[idx]
               new == emitted'[Len(emitted')]
           IN /\ new.src = idx
              /\ DOMAIN new.rec = DOMAIN old \cup {ErrorField}
              /\ new.rec[ErrorField] = JStr("Invalid JSON.")
              /\ \A f \in DOMAIN old \ {ErrorField} : new.rec[f] = old[f]
       ]_vars

\* an invalid record was yielded with its diagnostic although a default is
\* configured
W_C2 ==
    /\ opt_default # JNull
    /\ Len(emitted) >= 1
    /\ InvalidText(records[1])
    /\ emitted[1].rec[ErrorField] = JStr("Invalid JSON.")
    /\ opt_output \notin DOMAIN emitted[1].rec

\* C3: once an unknown-function error has aborted stream(), the records
\* yielded are exactly the records before the one that raised it, once each
\* and in input order, and nothing is yielded afterwards
C3_Abort ==
    /\ []((pc = "raised" /\ cause = FatalCause) =>
            /\ idx <= Len(records)
            /\ Len(emitted) = idx - 1
            /\ \A j \in 1..Len(emitted) : emitted[j].src = j)
    /\ [][pc = "raised" => emitted' = emitted /\ pc' = "raised"]_vars

\* the second record raised the unknown-function error after the first one
\* had been yielded
W_C3 ==
    /\ pc = "raised"
    /\ cause = FatalCause
    /\ idx = 2
    /\ Len(emitted) = 1

-----------------------------------------------------------------------------
(* Properties of the field mappers, checked under SpecMap *)

\* the zero/one/many reduction of a token sequence
Reduced(content) ==
    IF content = <<>> THEN JNull
    ELSE IF Len(content) = 1 THEN content[1]
    ELSE JArr(content)

\* a step of the wildcard loop that stored a value
WildcardStored == m_pc = "loop" /\ m_i' = m_i + 1 /\ m_pc' # "raised"

\* C4: after wildcard mapping of an object whose keys are strings, the
\* record has, for every key, the field named by the pattern with its "*"
\* replaced by that key
C4_Fanout ==
    (/\ m_pc = "done"
     /\ StrContains(opt_output, "*")
     /\ IsDict(m_values)
     /\ \A i \in 1..Len(m_values.o) : IsStr(m_values.o[i].k)) =>
        \A i \in 1..Len(m_values.o) :
            StrReplace1(opt_output, "*", m_values.o[i].k.s) \in DOMAIN m_record

FieldApplied ==
    m_pc = "start" /\ m_pc' = "done" /\ ~StrContains(opt_output, "*")

-----------------------------------------------------------------------------
(* Properties of the custom functions, checked under SpecFn *)

\* C7: pairs of an object is the array of its [key, value] entries in
\* iteration order, and to_hash of that array is the object again
C7_ToHashPairs ==
    /\ (fpc = "ret" /\ chain = <<"items">> /\ IsDict(doc) /\ DistinctKeys(doc.o))
        => /\ IsList(result)
           /\ Len(result.a) = Len(doc.o)
           /\ \A i \in 1..Len(doc.o) :
                result.a[i] = JArr(<<doc.o[i].k, doc.o[i].v>>)
    /\ (fpc = "ret" /\ chain = <<"items", "to_hash">> /\ IsDict(doc)
            /\ DistinctKeys(doc.o))
        => result = doc

\* to_hash(pairs(o)) returned for an object o of two entries
W_C7 ==
    /\ fpc = "ret"
    /\ chain = <<"items", "to_hash">>
    /\ IsDict(doc)
    /\ Len(doc.o) >= 2
    /\ result = doc

AllObjects(a) == \A i \in 1..Len(a.a) : IsDict(a.a[i])

HasField(item, name) == KeyIndex(item.o, JStr(name)) # 0

FieldOf(item, name) == item.o[KeyIndex(item.o, JStr(name))].v

\* the key an element contributes under, a string
StrKey(item, kf) ==
    IF IsStr(FieldOf(item, kf)) THEN FieldOf(item, kf)
    ELSE JStr(PyStr(FieldOf(item, kf)))

\* the elements that have both fields
Kept(a, kf, vf) ==
    SelectSeq(a.a, LAMBDA it : HasField(it, kf) /\ HasField(it, vf))

\* the values of the kept elements whose key is k, in order
ValuesOf(kept, k, kf, vf) ==
    LET same == SelectSeq(kept, LAMBDA it : StrKey(it, kf) = k)
    IN [n \in 1..Len(same) |-> FieldOf(same[n], vf)]

\* the object the claim describes
UnrollExpected(a, kf, vf) ==
    LET kept == Kept(a, kf, vf)
        first == SelectSeq([i \in 1..Len(kept) |-> i],
                    LAMBDA i : \A j \in 1..(i - 1) :
                        StrKey(kept[j], kf) # StrKey(kept[i], kf))
    IN JObj([n \in 1..Len(first) |->
                LET k == StrKey(kept[first[n]], kf)
                    vals == ValuesOf(kept, k, kf, vf)
                IN Entry(k, IF Len(vals) = 1 THEN vals[1] ELSE JArr(vals))])

\* C8: unroll of an array of objects returns the object whose keys are the
\* keys of the kept elements in order of first occurrence, a key met once
\* mapped to its value and a key met n >= 2 times to the array of its n
\* values in order, whatever the values are
C8_Unroll ==
    [][(/\ fpc = "call"
        /\ chain = <<>>
        /\ chain' = <<"unroll">>
        /\ IsList(cur)
        /\ AllObjects(cur)) =>
            result' = UnrollExpected(cur, key_field, value_field)]_vars

\* C9: every object to_hash or unroll returns has string keys only
C9_StringKeys ==
    (/\ fpc = "ret"
     /\ chain # <<>>
     /\ chain[Len(chain)] \in {"to_hash", "unroll"}
     /\ IsDict(result)) =>
        \A i \in 1..Len(result.o) : IsStr(result.o[i].k)

\* C10: a call of unroll leaves its argument, and so the document, as it was
C10_NoSideEffect ==
    [][(fpc = "call" /\ chain' = Append(chain, "unroll")) =>
        doc' = doc /\ cur' = cur]_vars

====
